---------------------------- MODULE Spec2Model ----------------------------
(***************************************************************************)
(* Verification model of the SHA-256 channel gadgets of                    *)
(* bitcoin-circle-stark (src/src/channel/bitcoin_script.rs).               *)
(*                                                                         *)
(* The gadgets are Bitcoin script fragments.  The model is a script        *)
(* interpreter (main stack, altstack, conditional-execution stack, program  *)
(* counter) that runs the fragments opcode by opcode, one action per        *)
(* opcode, on scripts assembled the way the repository's tests assemble     *)
(* them: the hint pushes, the digest push, then the fragment.               *)
(*                                                                         *)
(* Stack items are byte strings (sequences of 0..255), top of stack last.   *)
(***************************************************************************)
EXTENDS Integers, Sequences, FiniteSets, TLC

VARIABLES
    test,       \* the inputs of the run: fragment, N, logn, x, d, hint
    script,     \* the assembled script, a sequence of opcodes
    pc,         \* index of the next opcode of script
    stack,      \* main stack, top last
    altstack,   \* alternate stack, top last
    vfExec,     \* conditional-execution stack of OP_IF/OP_NOTIF, innermost last
    status,     \* "host" | "panicked" | "running" | "aborted" | "done"
    trimLog     \* the operands handed to trim_m31_gadget so far, in order

vars == <<test, script, pc, stack, altstack, vfExec, status, trimLog>>

---------------------------------------------------------------------------
(* Byte strings *)

Byte == 0..255

\* Length of a digest (BWSSha256Hash), the 32 of `32 - (N % 8) * 4`.
DigestLen == 32

\* Length of the word each hint encoding stands for.
WordLen == 4

RECURSIVE Pow2(_)
Pow2(n) == IF n = 0 THEN 1 ELSE 2 * Pow2(n - 1)

RECURSIVE Concat(_)
\* Concatenation of a sequence of byte strings.
Concat(ss) == IF ss = <<>> THEN <<>> ELSE Head(ss) \o Concat(Tail(ss))

RECURSIVE Rep(_, _)
\* n copies of a script, one after the other: `for _ in 0..n { s }`.
Rep(n, s) == IF n <= 0 THEN <<>> ELSE s \o Rep(n - 1, s)

\* The bytes of s from 0-based offset a (inclusive) to b (exclusive).
Slice(s, a, b) == IF b <= a THEN <<>> ELSE SubSeq(s, a + 1, b)

\* s with bit k flipped, bit 0 being the low bit of the first byte.
FlipBit(s, k) ==
    LET i == (k \div 8) + 1
        j == Pow2(k % 8)
        b == s[i]
    IN [s EXCEPT ![i] = IF (b \div j) % 2 = 1 THEN b - j ELSE b + j]

---------------------------------------------------------------------------
(* Script numbers: little-endian sign-magnitude, at most 4 bytes. *)

\* The interpreter of the tests (execute_script) requires minimal encodings.
RequireMinimal == TRUE

RECURSIVE LEBytes(_)
\* Little-endian bytes of a magnitude, no leading (high) zero byte.
LEBytes(m) == IF m = 0 THEN <<>> ELSE <<m % 256>> \o LEBytes(m \div 256)

\* Sign-magnitude encoding of magnitude m > 0 with the given sign.
SignMagnitude(m, neg) ==
    LET b == LEBytes(m)
        n == Len(b)
    IN IF b[n] >= 128
       THEN b \o <<IF neg THEN 128 ELSE 0>>
       ELSE IF neg THEN [b EXCEPT ![n] = b[n] + 128] ELSE b

\* scriptint_vec: the encoding the interpreter pushes for an integer.
ScriptNumEncode(n) ==
    IF n = 0 THEN <<>> ELSE SignMagnitude(IF n < 0 THEN -n ELSE n, n < 0)

\* A minimally encoded number: no high byte that only carries padding.
IsMinimal(b) ==
    LET n == Len(b)
    IN n = 0 \/ b[n] % 128 # 0 \/ (n > 1 /\ b[n - 1] >= 128)

\* What an arithmetic opcode accepts as an operand.
IsNum(b) == Len(b) <= 4 /\ (RequireMinimal => IsMinimal(b))

RECURSIVE LEValue(_)
LEValue(b) == IF b = <<>> THEN 0 ELSE Head(b) + 256 * LEValue(Tail(b))

\* read_scriptint: the integer an operand denotes.
ScriptNumDecode(b) ==
    LET n == Len(b)
    IN IF n = 0 THEN 0
       ELSE LET m == LEValue([b EXCEPT ![n] = b[n] % 128])
            IN IF b[n] >= 128 THEN -m ELSE m

\* The boolean results of OP_EQUAL, OP_NOT, OP_LESSTHAN.
BoolItem(c) == IF c THEN <<1>> ELSE <<>>

\* OP_IF / OP_NOTIF accept only the two minimal booleans.
IsMinimalIf(b) == b = <<>> \/ b = <<1>>

---------------------------------------------------------------------------
(* SHA-256.  The hash is a primitive of the interpreter, not code of the    *)
(* repository; it is modelled as a deterministic function from byte strings *)
(* to 32-byte strings that depends on every byte, on the order of the bytes *)
(* and on the length, and whose outputs are made of the words of WordSet,   *)
(* so that hashed digests exercise every encoding case of the hints.        *)

\* 4-byte little-endian words covering the cases of the encoding: zero, one,
\* 1/2/3/4-byte magnitudes, a set sign bit, negative zero, the extremes.
WordSet ==
    << <<0, 0, 0, 0>>,          \* 0: the empty encoding
       <<1, 0, 0, 0>>,          \* 1, reduced to 0
       <<127, 0, 0, 0>>,        \* largest one-byte magnitude
       <<128, 0, 0, 0>>,        \* 128: two-byte encoding 80 00
       <<0, 0, 0, 128>>,        \* negative zero
       <<5, 0, 0, 128>>,        \* -5: one-byte encoding 85
       <<255, 255, 0, 0>>,      \* 65535: three-byte encoding ff ff 00
       <<255, 255, 127, 0>>,    \* largest three-byte magnitude
       <<0, 0, 128, 0>>,        \* 2^23: four-byte encoding
       <<52, 18, 255, 128>>,    \* negative, four-byte encoding
       <<255, 255, 255, 127>>,  \* 2^31 - 1, reduced to 2^31 - 2
       <<255, 255, 255, 255>>,  \* -(2^31 - 1)
       <<120, 86, 52, 18>> >>   \* a generic word

NumWords == Len(WordSet)

\* The number of values of the hash.
HashRange == (NumWords * NumWords) - 2

RECURSIVE Absorb(_, _, _)
\* The contribution of the bytes lo..hi of s: each byte weighted by its
\* position.  (Halving keeps the evaluation shallow.)
Absorb(s, lo, hi) ==
    IF lo > hi THEN 0
    ELSE IF lo = hi THEN (((7 * lo) + 3) * (s[lo] + 1)) % HashRange
    ELSE LET mid == (lo + hi) \div 2
         IN (Absorb(s, lo, mid) + Absorb(s, mid + 1, hi)) % HashRange

Sha256(s) ==
    LET a == Absorb(s, 1, Len(s))
        w(i) == WordSet[(((a % NumWords) + i * (1 + (a \div NumWords))) % NumWords) + 1]
    IN Concat([i \in 1..(DigestLen \div WordLen) |-> w(i - 1)])

---------------------------------------------------------------------------
(* Opcodes *)

Op(name) == [op |-> name, data |-> <<>>]

\* OP_PUSHBYTES_n followed by n bytes: pushes those bytes.
PushBytes(bytes) == [op |-> "OP_PUSHBYTES", data |-> bytes]

\* An integer literal in script!: pushes its script-number encoding.
PushNum(n) == PushBytes(ScriptNumEncode(n))

\* script! writes the pushed bytes as opcode names: OP_PUSHBYTES_0 is the
\* byte 0x00 and OP_LEFT is the byte 0x80.
BYTE_OP_PUSHBYTES_0 == 0
BYTE_OP_LEFT == 128

\* trim_m31_gadget(logn) of crate::utils, run as one step.
TrimOp(logn) == [op |-> "trim_m31_gadget", data |-> <<logn>>]

---------------------------------------------------------------------------
(* The fragments of Sha256ChannelGadget *)

\* Mutant of mix_digest: the two items are concatenated the other way round.
mix_digest_swapped == <<Op("OP_SWAP"), Op("OP_CAT"), Op("OP_SHA256")>>

mix_digest == <<Op("OP_CAT"), Op("OP_SHA256")>>

\* Mutant of reconstruct_negative_zero: the hint itself is stored as the
\* magnitude.
reconstruct_negative_zero_stores_hint ==
    << Op("OP_TOALTSTACK"),
       PushBytes(<<BYTE_OP_PUSHBYTES_0, BYTE_OP_PUSHBYTES_0,
                   BYTE_OP_PUSHBYTES_0, BYTE_OP_LEFT>>) >>

\* Mutant of reconstruct_negative_zero: 0x80 mapped to the all-zero word.
reconstruct_negative_zero_as_zero ==
    << Op("OP_DROP"),
       PushBytes(<<>>), Op("OP_TOALTSTACK"),
       PushBytes(<<0, 0, 0, 0>>) >>

\* reconstruct, the branch taken for the hint 0x80: the hint is dropped, the
\* magnitude 0 is stored and the word 00 00 00 80 is pushed.
reconstruct_negative_zero ==
    << Op("OP_DROP"),
       PushBytes(<<>>), Op("OP_TOALTSTACK"),
       PushBytes(<<BYTE_OP_PUSHBYTES_0, BYTE_OP_PUSHBYTES_0,
                   BYTE_OP_PUSHBYTES_0, BYTE_OP_LEFT>>) >>

\* Mutant of reconstruct_general: the copy of a 4-byte magnitude is not
\* dropped.
reconstruct_general_keeps_copy ==
    << Op("OP_DUP"), Op("OP_ABS"),
       Op("OP_DUP"), Op("OP_TOALTSTACK"),
       Op("OP_SIZE"), PushNum(4), Op("OP_LESSTHAN"),
       Op("OP_IF"),
           Op("OP_DUP"), Op("OP_ROT"),
           Op("OP_EQUAL"), Op("OP_TOALTSTACK"),
           Op("OP_SIZE"), PushNum(2), Op("OP_LESSTHAN"), Op("OP_IF"),
               PushBytes(<<BYTE_OP_PUSHBYTES_0, BYTE_OP_PUSHBYTES_0>>),
               Op("OP_CAT"), Op("OP_ENDIF"),
           Op("OP_SIZE"), PushNum(3), Op("OP_LESSTHAN"), Op("OP_IF"),
               PushBytes(<<BYTE_OP_PUSHBYTES_0>>),
               Op("OP_CAT"), Op("OP_ENDIF"),
           Op("OP_FROMALTSTACK"),
           Op("OP_IF"),
               PushBytes(<<BYTE_OP_PUSHBYTES_0>>),
           Op("OP_ELSE"),
               PushBytes(<<BYTE_OP_LEFT>>),
           Op("OP_ENDIF"),
           Op("OP_CAT"),
       Op("OP_ENDIF") >>

\* reconstruct, the branch taken for every other hint.
reconstruct_general ==
    << Op("OP_DUP"), Op("OP_ABS"),
       Op("OP_DUP"), Op("OP_TOALTSTACK"),
       Op("OP_SIZE"), PushNum(4), Op("OP_LESSTHAN"),
       Op("OP_IF"),
           Op("OP_DUP"), Op("OP_ROT"),
           Op("OP_EQUAL"), Op("OP_TOALTSTACK"),
           Op("OP_SIZE"), PushNum(2), Op("OP_LESSTHAN"), Op("OP_IF"),
               PushBytes(<<BYTE_OP_PUSHBYTES_0, BYTE_OP_PUSHBYTES_0>>),
               Op("OP_CAT"), Op("OP_ENDIF"),
           Op("OP_SIZE"), PushNum(3), Op("OP_LESSTHAN"), Op("OP_IF"),
               PushBytes(<<BYTE_OP_PUSHBYTES_0>>),
               Op("OP_CAT"), Op("OP_ENDIF"),
           Op("OP_FROMALTSTACK"),
           Op("OP_IF"),
               PushBytes(<<BYTE_OP_PUSHBYTES_0>>),
           Op("OP_ELSE"),
               PushBytes(<<BYTE_OP_LEFT>>),
           Op("OP_ENDIF"),
           Op("OP_CAT"),
       Op("OP_ELSE"),
           Op("OP_DROP"),
       Op("OP_ENDIF") >>

\* Mutant of reconstruct: no special case for 0x80.
reconstruct_without_special_case == reconstruct_general

reconstruct ==
    << Op("OP_DUP"), PushBytes(<<BYTE_OP_LEFT>>), Op("OP_EQUAL"), Op("OP_IF") >>
    \o reconstruct_negative_zero
    \o <<Op("OP_ELSE")>>
    \o reconstruct_general
    \o <<Op("OP_ENDIF")>>

\* unpack_multi_m31, first loop: the N hint encodings are brought from the
\* bottom of the stack to the top.
unpack_collect(N) == Rep(N, <<Op("OP_DEPTH"), Op("OP_1SUB"), Op("OP_ROLL")>>)

\* Second loop: each encoding in turn is rolled to the top and reconstructed.
unpack_reconstruct(N) == Rep(N, <<PushNum(N - 1), Op("OP_ROLL")>> \o reconstruct)

\* Mutant of unpack_check: the comparison is made and its result dropped.
unpack_check_unverified(N) ==
    Rep(N - 1, <<Op("OP_CAT")>>)
    \o (IF N % 8 # 0
        THEN <<Op("OP_DEPTH"), Op("OP_1SUB"), Op("OP_ROLL"), Op("OP_CAT")>>
        ELSE <<>>)
    \o <<Op("OP_EQUAL"), Op("OP_DROP")>>

\* The words are concatenated, the remainder (if any) is fetched from the
\* bottom and appended, and the result is compared with the digest.
unpack_check(N) ==
    Rep(N - 1, <<Op("OP_CAT")>>)
    \o (IF N % 8 # 0
        THEN <<Op("OP_DEPTH"), Op("OP_1SUB"), Op("OP_ROLL"), Op("OP_CAT")>>
        ELSE <<>>)
    \o <<Op("OP_EQUALVERIFY")>>

\* Mutant of unpack_reduce: 1 is subtracted from a zero magnitude too.
unpack_reduce_always_1sub(N) == Rep(N, <<Op("OP_FROMALTSTACK"), Op("OP_1SUB")>>)

\* Mutant of unpack_reduce: the test for zero is inverted.
unpack_reduce_zero_test_inverted(N) ==
    Rep(N, <<Op("OP_FROMALTSTACK"),
             Op("OP_DUP"), Op("OP_NOT"), Op("OP_IF"),
             Op("OP_1SUB"), Op("OP_ENDIF")>>)

\* Last loop: each magnitude is taken back and reduced.
unpack_reduce(N) ==
    Rep(N, <<Op("OP_FROMALTSTACK"),
             Op("OP_DUP"), Op("OP_NOT"), Op("OP_NOTIF"),
             Op("OP_1SUB"), Op("OP_ENDIF")>>)

\* Mutant of unpack_multi_m31: the magnitudes are reduced before the check.
unpack_multi_m31_reduce_first(N) ==
    unpack_collect(N) \o unpack_reconstruct(N) \o unpack_reduce(N) \o unpack_check(N)

unpack_multi_m31(N) ==
    unpack_collect(N) \o unpack_reconstruct(N) \o unpack_check(N) \o unpack_reduce(N)

\* Mutant of draw_prologue: the two hashes change roles, SHA256(d || 0x00)
\* is kept as the digest and SHA256(d) is the string the hint is checked
\* against.
draw_prologue_roles_swapped ==
    << Op("OP_DUP"), PushBytes(<<BYTE_OP_PUSHBYTES_0>>), Op("OP_CAT"), Op("OP_SHA256"),
       Op("OP_SWAP"), Op("OP_SHA256") >>

\* Mutant of draw_prologue: the 0x00 byte is not appended.
draw_prologue_without_zero_byte ==
    << Op("OP_DUP"), Op("OP_SHA256"), Op("OP_SWAP"), Op("OP_SHA256") >>

\* The prologue shared by the two squeeze fragments.
draw_prologue ==
    << Op("OP_DUP"), Op("OP_SHA256"), Op("OP_SWAP"),
       PushBytes(<<BYTE_OP_PUSHBYTES_0>>), Op("OP_CAT"), Op("OP_SHA256") >>

draw_felt_with_hint == draw_prologue \o unpack_multi_m31(4)

\* Mutant of draw_5numbers_with_hint: OP_SWAP where OP_2SWAP is needed.
draw_5numbers_with_swap(logn) ==
    draw_prologue
    \o unpack_multi_m31(5)
    \o <<TrimOp(logn)>>
    \o <<Op("OP_SWAP"), TrimOp(logn)>>
    \o <<Op("OP_SWAP"), TrimOp(logn)>>
    \o <<Op("OP_SWAP"), TrimOp(logn)>>
    \o <<PushNum(4), Op("OP_ROLL"), TrimOp(logn)>>

draw_5numbers_with_hint(logn) ==
    draw_prologue
    \o unpack_multi_m31(5)
    \o <<TrimOp(logn)>>
    \o <<Op("OP_SWAP"), TrimOp(logn)>>
    \o <<Op("OP_2SWAP"), TrimOp(logn)>>
    \o <<Op("OP_SWAP"), TrimOp(logn)>>
    \o <<PushNum(4), Op("OP_ROLL"), TrimOp(logn)>>

\* Mutant of push_draw_hint_asserts: the remainder is not checked when none
\* is expected.
push_draw_hint_asserts_nonempty_only(N, e) ==
    N % 8 # 0 => Len(e.e1) = DigestLen - ((N % 8) * WordLen)

\* A hint DrawHints<N>: e0 the N encodings, e1 the remainder.
\* The assertions of push_draw_hint.
push_draw_hint_asserts(N, e) ==
    IF N % 8 = 0
    THEN e.e1 = <<>>
    ELSE Len(e.e1) = DigestLen - ((N % 8) * WordLen)

\* The script push_draw_hint returns when its assertions hold.
push_draw_hint(N, e) ==
    [i \in 1..N |-> PushBytes(e.e0[i])]
    \o (IF N % 8 # 0 THEN <<PushBytes(e.e1)>> ELSE <<>>)

---------------------------------------------------------------------------
(* The host side (crate::channel, crate::utils): hints and expected values. *)

\* The i-th 4-byte window of a 32-byte string, i counted from 0.
Window(h, i) == Slice(h, i * WordLen, (i + 1) * WordLen)

\* The low 31 bits of a little-endian word.
WordMagnitude(w) == w[1] + (256 * w[2]) + (65536 * w[3]) + (16777216 * (w[4] % 128))

\* Bit 31 of a little-endian word.
WordNegative(w) == w[4] >= 128

\* The reduction of a 31-bit magnitude to a base field element.
M31Reduce(m) == IF m = 0 THEN 0 ELSE m - 1

\* The native-integer encoding of a word: sign and magnitude, minimal;
\* the word with only bit 31 set is "negative zero", the single byte 0x80.
HintEncoding(w) ==
    IF WordMagnitude(w) = 0
    THEN IF WordNegative(w) THEN <<128>> ELSE <<>>
    ELSE SignMagnitude(WordMagnitude(w), WordNegative(w))

\* generate_hints::<N>(h): the N reduced values and the hint.
generate_hints(h, N) ==
    [values |-> [i \in 1..N |-> M31Reduce(WordMagnitude(Window(h, i - 1)))],
     hint   |-> [e0 |-> [i \in 1..N |-> HintEncoding(Window(h, i - 1))],
                 e1 |-> IF N % 8 # 0
                        THEN Slice(h, N * WordLen, DigestLen)
                        ELSE <<>>]]

\* Sha256Channel::mix_digest(x) on digest d: the digest it leaves.
channel_mix_digest(d, x) == Sha256(x \o d)

\* trim_m31(v, logn): the low logn bits of v.
trim_m31(v, logn) == v % Pow2(logn)

\* Pushable for M31: the element is pushed as an integer.
PushM31(v) == PushNum(v)

\* Mutant of PushQM31: the coordinates pushed in their natural order.
PushQM31_natural_order(q) == <<PushM31(q[1]), PushM31(q[2]), PushM31(q[3]), PushM31(q[4])>>

\* Pushable for QM31 = QM31(CM31(a0, a1), CM31(a2, a3)), given as <<a0, a1, a2, a3>>:
\* self.1.1, self.1.0, self.0.1, self.0.0 in that order.
PushQM31(q) == <<PushM31(q[4]), PushM31(q[3]), PushM31(q[2]), PushM31(q[1])>>

\* Pushable for BWSSha256Hash: the 32 bytes.
PushHash(h) == PushBytes(h)

---------------------------------------------------------------------------
(* The runs that are explored *)

\* Number of digests the multi-word runs start from.
NumPatterns == 3

\* The bit widths of draw_5numbers_with_hint: the tests' 15 and a small one.
TestLogn == 15
SmallLogn == 3

\* The instantiations of N in the repository.
NSet == {1, 4, 5, 8}

\* A 32-byte digest made of eight consecutive words of WordSet.
Digest(p) ==
    Concat([i \in 1..(DigestLen \div WordLen) |->
              WordSet[(((5 * p) + i - 1) % NumWords) + 1]])

NoHint == [e0 |-> <<>>, e1 |-> <<>>]

Test(frag, N, logn, x, d, e, raw) ==
    [frag |-> frag, N |-> N, logn |-> logn, x |-> x, d |-> d, e |-> e, raw |-> raw]

\* Every single-bit flip of a byte string.
BitFlips(s) == {FlipBit(s, k) : k \in 0..((8 * Len(s)) - 1)}

\* Byte strings a forger may try in place of an encoding.
ForgedEncodings ==
    { <<>>, <<128>>, <<0>>, <<1>>, <<129>>, <<5>>, <<5, 0>>, <<5, 128>>,
      <<0, 128>>, <<0, 0, 0, 0>>, <<0, 0, 0, 128>>, <<5, 0, 0, 128>>,
      <<1, 0, 0, 0>>, <<255, 255, 255, 127, 0>>, <<1, 0, 0, 0, 0>> }

\* A few flips of a byte string: its first bit, the sign bit of its first
\* byte, its last bit.
FewFlips(s) ==
    IF s = <<>> THEN {} ELSE {FlipBit(s, 0), FlipBit(s, 7), FlipBit(s, (8 * Len(s)) - 1)}

\* Remainders a forger (or a faulty host) may supply in place of r.
RemainderVariants(r) ==
    FewFlips(r) \cup {<<>>, r \o <<0>>}
    \cup (IF r = <<>> THEN {} ELSE {SubSeq(r, 1, Len(r) - 1)})

MixTests ==
    { Test("mix_digest", 0, 0, Digest(q), Digest(p), NoHint, FALSE) :
        p \in 0..(NumPatterns - 1), q \in 0..(NumPatterns - 1) }

\* The hashes of d a squeeze may take its values from.
DrawSources(d) == {Sha256(d), Sha256(d \o <<0>>)}

\* The squeeze fragments on digest d, the hint generated from s.
DrawTestsOf(d, s) ==
    { Test("draw_felt", 4, 0, <<>>, d, generate_hints(s, 4).hint, FALSE) }
    \cup { Test("draw_5numbers", 5, l, <<>>, d, generate_hints(s, 5).hint, FALSE) :
             l \in {SmallLogn, TestLogn} }

DrawTests ==
    UNION { UNION { DrawTestsOf(Digest(p), s) : s \in DrawSources(Digest(p)) } :
            p \in 0..(NumPatterns - 1) }

\* unpack_multi_m31::<1> on every word, with every flip of the honest
\* encoding and every forged encoding.
Unpack1Tests ==
    UNION { LET h == Digest(p)
                e == generate_hints(h, 1).hint
            IN { Test("unpack", 1, 0, <<>>, h, [e EXCEPT !.e0 = <<f>>], FALSE) :
                   f \in {e.e0[1]} \cup BitFlips(e.e0[1]) \cup ForgedEncodings }
            : p \in 0..(NumWords - 1) }

\* unpack_multi_m31::<N> on h with the j-th encoding of the honest hint
\* replaced.
ReplacedTests(h, N, j) ==
    LET e == generate_hints(h, N).hint
    IN { Test("unpack", N, 0, <<>>, h, [e EXCEPT !.e0[j] = f], FALSE) :
           f \in {e.e0[j], <<128>>} \cup FewFlips(e.e0[j]) }

UnpackNTests ==
    UNION { UNION { ReplacedTests(Digest(p), N, j) : j \in 1..N } :
            p \in 0..(NumPatterns - 1), N \in NSet \ {1} }

\* unpack_multi_m31::<N> with the remainder replaced, through push_draw_hint
\* (raw = FALSE) or placed on the stack directly (raw = TRUE).
RemainderTests ==
    UNION { LET h == Digest(p)
                e == generate_hints(h, N).hint
            IN { Test("unpack", N, 0, <<>>, h, [e EXCEPT !.e1 = r], raw) :
                   r \in RemainderVariants(e.e1), raw \in BOOLEAN }
            : p \in 0..(NumPatterns - 1), N \in NSet }

\* test_corner_case: the hint of h is pushed, h itself is not, and OP_NOT
\* follows the fragment.
CornerTests ==
    { Test("corner_case", 1, 0, <<>>, Digest(p), generate_hints(Digest(p), 1).hint, FALSE) :
        p \in 0..(NumWords - 1) }

\* push_draw_hint::<N> alone, for every N >= 1 whose words fit a digest,
\* on hints with a remainder of the right and of a wrong length.
HintShapeTests ==
    UNION { LET e == generate_hints(Digest(0), N).hint
            IN { Test("push_draw_hint", N, 0, <<>>, Digest(0), [e EXCEPT !.e1 = r], FALSE) :
                   r \in {e.e1} \cup RemainderVariants(e.e1) }
            : N \in 1..(DigestLen \div WordLen) }

\* Items that lie between the hint items and the digest when the fragment
\* runs inside a larger script (as the hints x, y of get_random_point do),
\* and an item such a script has on the altstack.
MiddleItems == << <<BYTE_OP_LEFT>>, <<7>>, <<52, 18>> >>
FrameAltstack == << <<9>> >>

\* A digest whose first windows take the three branches of reconstruct:
\* negative zero, a short encoding, a 4-byte encoding.
MixedDigest ==
    Concat(<< WordSet[5], WordSet[6], WordSet[11], WordSet[1],
              WordSet[12], WordSet[13], WordSet[4], WordSet[2] >>)

\* unpack_multi_m31::<N> with MiddleItems above the hint and FrameAltstack on
\* the altstack, on the honest hint and on a hint with a replaced remainder
\* or first encoding.
FramedTests ==
    UNION { LET e == generate_hints(h, N).hint
            IN { Test("unpack_framed", N, 0, <<>>, h, e, FALSE) }
               \cup { Test("unpack_framed", N, 0, <<>>, h, [e EXCEPT !.e1 = r], TRUE) :
                        r \in {e.e1, e.e1 \o <<0>>} }
               \cup { Test("unpack_framed", N, 0, <<>>, h, [e EXCEPT !.e0[1] = f], FALSE) :
                        f \in FewFlips(e.e0[1]) }
            : h \in {Digest(p) : p \in 0..(NumPatterns - 1)} \cup {MixedDigest},
              N \in NSet }

\* What is on the altstack when the fragment starts.
InitialAltstack(t) == IF t.frag = "unpack_framed" THEN FrameAltstack ELSE <<>>

\* What lies between the hint and the digest when the fragment starts.
InitialMiddle(t) == IF t.frag = "unpack_framed" THEN MiddleItems ELSE <<>>

Tests ==
    MixTests \cup DrawTests \cup Unpack1Tests \cup UnpackNTests \cup RemainderTests
    \cup CornerTests \cup HintShapeTests \cup FramedTests

---------------------------------------------------------------------------
(* Assembling the script of a run, as the tests do. *)

\* The hint items placed on the stack without push_draw_hint: the encodings,
\* then the remainder (for N = 8 only one that is there).
RawHintPushes(N, e) ==
    [i \in 1..N |-> PushBytes(e.e0[i])]
    \o (IF N % 8 # 0 \/ e.e1 # <<>> THEN <<PushBytes(e.e1)>> ELSE <<>>)

HintPushes(t) ==
    IF t.raw THEN RawHintPushes(t.N, t.e) ELSE push_draw_hint(t.N, t.e)

\* The fragment a run is about.
Fragment(t) ==
    CASE t.frag = "mix_digest"    -> mix_digest
      [] t.frag = "draw_felt"     -> draw_felt_with_hint
      [] t.frag = "draw_5numbers" -> draw_5numbers_with_hint(t.logn)
      [] t.frag = "unpack"        -> unpack_multi_m31(t.N)
      [] t.frag = "unpack_framed" -> unpack_multi_m31(t.N)
      [] t.frag = "corner_case"   -> unpack_multi_m31(t.N) \o <<Op("OP_NOT")>>
      [] t.frag = "push_draw_hint" -> <<>>

\* What the tests push before the fragment.
Prelude(t) ==
    CASE t.frag = "mix_digest"  -> <<PushHash(t.x), PushHash(t.d)>>
      [] t.frag \in {"corner_case", "push_draw_hint"} -> HintPushes(t)
      [] t.frag = "unpack_framed" ->
            HintPushes(t)
            \o [i \in 1..Len(MiddleItems) |-> PushBytes(MiddleItems[i])]
            \o Concat([i \in 1..Len(FrameAltstack) |->
                         <<PushBytes(FrameAltstack[i]), Op("OP_TOALTSTACK")>>])
            \o <<PushHash(t.d)>>
      [] OTHER                  -> HintPushes(t) \o <<PushHash(t.d)>>

Init ==
    /\ test \in Tests
    /\ script = <<>>
    /\ pc = 1
    /\ stack = <<>>
    /\ altstack = <<>>
    /\ vfExec = <<>>
    /\ status = "host"
    /\ trimLog = <<>>

\* The host builds the script; push_draw_hint panics on a hint of the wrong
\* shape, and then there is no script.
Assemble ==
    /\ status = "host"
    /\ IF test.frag # "mix_digest" /\ ~test.raw /\ ~push_draw_hint_asserts(test.N, test.e)
       THEN /\ status' = "panicked"
            /\ script' = script
       ELSE /\ status' = "running"
            /\ script' = Prelude(test) \o Fragment(test)
    /\ UNCHANGED <<test, pc, stack, altstack, vfExec, trimLog>>

---------------------------------------------------------------------------
(* The interpreter *)

Depth == Len(stack)

\* The k-th item from the top, the top being the 0-th.
Top(k) == stack[Depth - k]

\* The stack without its n top items.
Pop(n) == SubSeq(stack, 1, Depth - n)

\* The opcode is run only when every enclosing branch is taken.
Executing == \A i \in 1..Len(vfExec) : vfExec[i]

Cur == script[pc]

Running == status = "running" /\ pc <= Len(script)

\* The next opcode is `name` and is run.
Fetch(name) == Running /\ Cur.op = name /\ Executing

\* The opcode succeeds, leaving the stacks s and a.
Step(s, a) ==
    /\ stack' = s
    /\ altstack' = a
    /\ pc' = pc + 1
    /\ UNCHANGED <<test, script, vfExec, status, trimLog>>

\* The opcode fails: the run ends there.
Abort ==
    /\ status' = "aborted"
    /\ UNCHANGED <<test, script, pc, stack, altstack, vfExec, trimLog>>

\* The operand of a unary arithmetic opcode is there and is a number.
HasNum == Depth >= 1 /\ IsNum(Top(0))

OP_PUSHBYTES == Fetch("OP_PUSHBYTES") /\ Step(Append(stack, Cur.data), altstack)

OP_CAT ==
    /\ Fetch("OP_CAT")
    /\ IF Depth >= 2 THEN Step(Append(Pop(2), Top(1) \o Top(0)), altstack) ELSE Abort

OP_SHA256 ==
    /\ Fetch("OP_SHA256")
    /\ IF Depth >= 1 THEN Step(Append(Pop(1), Sha256(Top(0))), altstack) ELSE Abort

OP_DUP ==
    /\ Fetch("OP_DUP")
    /\ IF Depth >= 1 THEN Step(Append(stack, Top(0)), altstack) ELSE Abort

OP_DROP ==
    /\ Fetch("OP_DROP")
    /\ IF Depth >= 1 THEN Step(Pop(1), altstack) ELSE Abort

OP_SWAP ==
    /\ Fetch("OP_SWAP")
    /\ IF Depth >= 2 THEN Step(Pop(2) \o <<Top(0), Top(1)>>, altstack) ELSE Abort

OP_2SWAP ==
    /\ Fetch("OP_2SWAP")
    /\ IF Depth >= 4
       THEN Step(Pop(4) \o <<Top(1), Top(0), Top(3), Top(2)>>, altstack)
       ELSE Abort

OP_ROT ==
    /\ Fetch("OP_ROT")
    /\ IF Depth >= 3 THEN Step(Pop(3) \o <<Top(1), Top(0), Top(2)>>, altstack) ELSE Abort

OP_SIZE ==
    /\ Fetch("OP_SIZE")
    /\ IF Depth >= 1
       THEN Step(Append(stack, ScriptNumEncode(Len(Top(0)))), altstack)
       ELSE Abort

OP_DEPTH == Fetch("OP_DEPTH") /\ Step(Append(stack, ScriptNumEncode(Depth)), altstack)

\* Pops n and moves the item n below the top to the top.
OP_ROLL ==
    /\ Fetch("OP_ROLL")
    /\ IF Depth >= 2 /\ IsNum(Top(0))
       THEN LET n == ScriptNumDecode(Top(0))
                s == Pop(1)
                i == Len(s) - n
            IN IF n >= 0 /\ n < Len(s)
               THEN Step(SubSeq(s, 1, i - 1) \o SubSeq(s, i + 1, Len(s)) \o <<s[i]>>,
                         altstack)
               ELSE Abort
       ELSE Abort

OP_TOALTSTACK ==
    /\ Fetch("OP_TOALTSTACK")
    /\ IF Depth >= 1 THEN Step(Pop(1), Append(altstack, Top(0))) ELSE Abort

OP_FROMALTSTACK ==
    /\ Fetch("OP_FROMALTSTACK")
    /\ IF Len(altstack) >= 1
       THEN Step(Append(stack, altstack[Len(altstack)]),
                 SubSeq(altstack, 1, Len(altstack) - 1))
       ELSE Abort

OP_EQUAL ==
    /\ Fetch("OP_EQUAL")
    /\ IF Depth >= 2 THEN Step(Append(Pop(2), BoolItem(Top(1) = Top(0))), altstack) ELSE Abort

OP_EQUALVERIFY ==
    /\ Fetch("OP_EQUALVERIFY")
    /\ IF Depth >= 2 /\ Top(1) = Top(0) THEN Step(Pop(2), altstack) ELSE Abort

OP_ABS ==
    /\ Fetch("OP_ABS")
    /\ IF HasNum
       THEN LET n == ScriptNumDecode(Top(0))
            IN Step(Append(Pop(1), ScriptNumEncode(IF n < 0 THEN -n ELSE n)), altstack)
       ELSE Abort

OP_1SUB ==
    /\ Fetch("OP_1SUB")
    /\ IF HasNum
       THEN Step(Append(Pop(1), ScriptNumEncode(ScriptNumDecode(Top(0)) - 1)), altstack)
       ELSE Abort

OP_NOT ==
    /\ Fetch("OP_NOT")
    /\ IF HasNum
       THEN Step(Append(Pop(1), BoolItem(ScriptNumDecode(Top(0)) = 0)), altstack)
       ELSE Abort

OP_LESSTHAN ==
    /\ Fetch("OP_LESSTHAN")
    /\ IF Depth >= 2 /\ IsNum(Top(0)) /\ IsNum(Top(1))
       THEN Step(Append(Pop(2), BoolItem(ScriptNumDecode(Top(1)) < ScriptNumDecode(Top(0)))),
                 altstack)
       ELSE Abort

\* OP_IF and OP_NOTIF (want = the value that takes the branch).  In a branch
\* that is not run they only open a nested branch that is not run either.
Branch(name, want) ==
    /\ Running
    /\ Cur.op = name
    /\ IF ~Executing
       THEN /\ vfExec' = Append(vfExec, FALSE)
            /\ pc' = pc + 1
            /\ UNCHANGED <<test, script, stack, altstack, status, trimLog>>
       ELSE IF Depth >= 1 /\ IsMinimalIf(Top(0))
            THEN /\ vfExec' = Append(vfExec, (Top(0) = <<1>>) = want)
                 /\ stack' = Pop(1)
                 /\ pc' = pc + 1
                 /\ UNCHANGED <<test, script, altstack, status, trimLog>>
            ELSE Abort

OP_IF == Branch("OP_IF", TRUE)

OP_NOTIF == Branch("OP_NOTIF", FALSE)

OP_ELSE ==
    /\ Running
    /\ Cur.op = "OP_ELSE"
    /\ IF vfExec = <<>>
       THEN Abort
       ELSE /\ vfExec' = [vfExec EXCEPT ![Len(vfExec)] = ~vfExec[Len(vfExec)]]
            /\ pc' = pc + 1
            /\ UNCHANGED <<test, script, stack, altstack, status, trimLog>>

OP_ENDIF ==
    /\ Running
    /\ Cur.op = "OP_ENDIF"
    /\ IF vfExec = <<>>
       THEN Abort
       ELSE /\ vfExec' = SubSeq(vfExec, 1, Len(vfExec) - 1)
            /\ pc' = pc + 1
            /\ UNCHANGED <<test, script, stack, altstack, status, trimLog>>

\* An opcode of a branch that is not taken.
Skip ==
    /\ Running
    /\ ~Executing
    /\ Cur.op \notin {"OP_IF", "OP_NOTIF", "OP_ELSE", "OP_ENDIF"}
    /\ pc' = pc + 1
    /\ UNCHANGED <<test, script, stack, altstack, vfExec, status, trimLog>>

\* The bit-trimming gadget: replaces the top element by its low logn bits.
trim_m31_gadget ==
    /\ Fetch("trim_m31_gadget")
    /\ IF Depth >= 1 /\ IsNum(Top(0)) /\ ScriptNumDecode(Top(0)) >= 0
       THEN /\ stack' = Append(Pop(1),
                          ScriptNumEncode(trim_m31(ScriptNumDecode(Top(0)), Cur.data[1])))
            /\ trimLog' = Append(trimLog, Top(0))
            /\ pc' = pc + 1
            /\ UNCHANGED <<test, script, altstack, vfExec, status>>
       ELSE Abort

\* The end of the script.
Finish ==
    /\ status = "running"
    /\ pc > Len(script)
    /\ status' = IF vfExec = <<>> THEN "done" ELSE "aborted"
    /\ UNCHANGED <<test, script, pc, stack, altstack, vfExec, trimLog>>

Next ==
    \/ Assemble
    \/ OP_PUSHBYTES \/ OP_CAT \/ OP_SHA256 \/ OP_DUP \/ OP_DROP \/ OP_SWAP
    \/ OP_2SWAP \/ OP_ROT \/ OP_SIZE \/ OP_DEPTH \/ OP_ROLL
    \/ OP_TOALTSTACK \/ OP_FROMALTSTACK \/ OP_EQUAL \/ OP_EQUALVERIFY
    \/ OP_ABS \/ OP_1SUB \/ OP_NOT \/ OP_LESSTHAN
    \/ OP_IF \/ OP_NOTIF \/ OP_ELSE \/ OP_ENDIF \/ Skip
    \/ trim_m31_gadget
    \/ Finish

Spec == Init /\ [][Next]_vars

---------------------------------------------------------------------------
(* Properties *)

Done == status = "done"

IsDraw == test.frag \in {"draw_felt", "draw_5numbers"}

\* The number of words a squeeze fragment reconstructs.
DrawN == IF test.frag = "draw_felt" THEN 4 ELSE 5

\* The run stands at the equality check of unpack_multi_m31.
AtCheck == Running /\ Executing /\ Cur.op = "OP_EQUALVERIFY"

\* The hint is the one generate_hints gives for the digest on the stack.
HonestHint == test.e = generate_hints(test.d, test.N).hint

\* The stack items of the N reduced values of h: the last-drawn at the
\* bottom, the first-drawn on top.
ReducedItems(h, N) ==
    [i \in 1..N |-> ScriptNumEncode(generate_hints(h, N).values[N + 1 - i])]

\* The n top items of the stack, bottom first.
TopItems(n) == SubSeq(stack, Depth - n + 1, Depth)

\* Some window of the first N of h is the negative-zero word.
NegativeZeroWord == <<0, 0, 0, 128>>
HasNegativeZero(h, N) == \E i \in 0..(N - 1) : Window(h, i) = NegativeZeroWord

\* C1: mix_digest on a stack [x, d] (d on top) leaves the single item
\* SHA256(x || d), which is the digest the host's mix_digest(x) produces
\* from d.
C1_MixDigest ==
    (test.frag = "mix_digest" /\ Done) =>
        /\ stack = <<Sha256(test.x \o test.d)>>
        /\ stack = <<channel_mix_digest(test.d, test.x)>>

C1_Witness ==
    /\ test.frag = "mix_digest" /\ Done
    /\ test.x # test.d
    /\ Sha256(test.x \o test.d) # Sha256(test.d \o test.x)
    /\ stack = <<channel_mix_digest(test.d, test.x)>>

\* C2 as stated: after an accepted squeeze on digest d the digest left on
\* the stack is SHA256(SHA256(d) || 0x00).
C2_Original ==
    (IsDraw /\ Done) => stack[1] = Sha256(Sha256(test.d) \o <<0>>)

\* C2 (amended): after an accepted squeeze on digest d the digest left on
\* the stack, beneath the N drawn values, is SHA256(d).
C2_NextDigest ==
    (IsDraw /\ Done) => (Depth = DrawN + 1 /\ stack[1] = Sha256(test.d))

C2_Witness ==
    /\ IsDraw /\ Done
    /\ stack[1] = Sha256(test.d)
    /\ Sha256(test.d) # Sha256(Sha256(test.d) \o <<0>>)

\* C3 as stated: in a squeeze on digest d the string the reconstructed
\* words and remainder are compared with is SHA256(d).
C3_Original ==
    (IsDraw /\ AtCheck) => Top(1) = Sha256(test.d)

\* C3 (amended): in a squeeze on digest d the string the reconstructed
\* words and remainder are compared with is SHA256(d || 0x00); the
\* comparison is reached with 4 magnitudes stored for draw_felt_with_hint
\* and 5 for draw_5numbers_with_hint, and the values of an accepted run are
\* the reductions of the windows of SHA256(d || 0x00).
C3_DrawSource ==
    /\ (IsDraw /\ AtCheck) =>
          /\ Depth = 3
          /\ Top(1) = Sha256(test.d \o <<0>>)
          /\ Len(Top(0)) = DigestLen
          /\ Len(altstack) = DrawN
    /\ (test.frag = "draw_felt" /\ Done) =>
          TopItems(4) = ReducedItems(Sha256(test.d \o <<0>>), 4)
    /\ (test.frag = "draw_5numbers" /\ Done) =>
          trimLog = [i \in 1..5 |-> ReducedItems(Sha256(test.d \o <<0>>), 5)[6 - i]]

C3_Witness ==
    /\ IsDraw /\ AtCheck
    /\ Top(1) = Sha256(test.d \o <<0>>)
    /\ Top(0) = Top(1)
    /\ Top(1) # Sha256(test.d)

\* C4: with the hint of generate_hints(h, N) beneath h, unpack_multi_m31::<N>
\* does not abort and leaves exactly the N reduced values of the windows of
\* h, the first-drawn on top.
C4_RoundTrip ==
    (test.frag = "unpack" /\ HonestHint) =>
        /\ status \notin {"aborted", "panicked"}
        /\ Done => stack = ReducedItems(test.d, test.N)

C4_Witness ==
    /\ test.frag = "unpack" /\ HonestHint /\ Done
    /\ test.N = 8
    /\ stack = ReducedItems(test.d, 8)
    /\ \E i, j \in 1..8 : Len(test.e.e0[i]) = 4 /\ Len(test.e.e0[j]) = 1

\* C5: whatever the hint items are, when unpack_multi_m31::<N> completes
\* the N values it leaves are the reductions of the low 31 bits of the
\* windows of h; and the equality check is passed only by the concatenation
\* that equals h.
C5_Soundness ==
    /\ (test.frag = "unpack" /\ Done) => TopItems(test.N) = ReducedItems(test.d, test.N)
    /\ (test.frag = "unpack" /\ pc > Len(script) - Len(unpack_reduce(test.N))
          /\ status # "host" /\ status # "panicked") =>
          (\A i \in 1..Len(altstack) : altstack[i] =
              ScriptNumEncode(WordMagnitude(Window(test.d, i - 1))))

C5_Witness ==
    /\ test.frag = "unpack" /\ Done
    /\ test.raw /\ ~push_draw_hint_asserts(test.N, test.e)
    /\ TopItems(test.N) = ReducedItems(test.d, test.N)

\* C6 as stated: a digest whose window is the negative-zero word, with the
\* hint 0x80 for it, makes unpack_multi_m31::<N> abort.
C6_Original ==
    (test.frag = "unpack" /\ HonestHint /\ HasNegativeZero(test.d, test.N)) => ~Done

\* C6 (amended): a digest whose window is the negative-zero word, with the
\* hint 0x80 for it, is accepted by unpack_multi_m31::<N>, which emits 0 for
\* that window; test_corner_case aborts at the equality check because the
\* digest is not on the stack, whatever the window is.
C6_NegativeZeroAccepted ==
    /\ (test.frag = "unpack" /\ HonestHint /\ HasNegativeZero(test.d, test.N)) =>
          /\ status \notin {"aborted", "panicked"}
          /\ Done => \A i \in 0..(test.N - 1) :
                        Window(test.d, i) = NegativeZeroWord => Top(i) = <<>>
    /\ test.frag = "corner_case" =>
          /\ ~Done
          /\ status = "aborted" => (Cur.op = "OP_EQUALVERIFY" /\ Depth = 1)

C6_Witness ==
    /\ test.frag = "unpack" /\ HonestHint /\ Done
    /\ test.N = 1
    /\ test.d[4] = 128 /\ test.d[1] = 0 /\ test.d[2] = 0 /\ test.d[3] = 0
    /\ test.e.e0 = << <<128>> >>
    /\ stack = << <<>> >>

\* C7: a run of unpack_multi_m31::<N> that is accepted was given exactly
\* the hint of generate_hints: any other encoding for a window, and any
\* other remainder, makes it abort.
C7_TamperSensitive ==
    (test.frag = "unpack" /\ Done) =>
        /\ test.e.e0 = generate_hints(test.d, test.N).hint.e0
        /\ test.N % 8 # 0 => test.e.e1 = generate_hints(test.d, test.N).hint.e1

C7_Witness ==
    /\ test.frag = "unpack" /\ status = "aborted"
    /\ \E j \in 1..test.N :
          /\ test.e.e0[j] \in BitFlips(generate_hints(test.d, test.N).hint.e0[j])
          /\ \A i \in 1..test.N : i # j =>
                test.e.e0[i] = generate_hints(test.d, test.N).hint.e0[i]
    /\ test.e.e1 = generate_hints(test.d, test.N).hint.e1
    /\ test.N = 8
    /\ Cur.op = "OP_EQUALVERIFY"

\* The shape the hint of N words must have: no remainder when 4N = 32, a
\* remainder of 32 - 4N bytes when 4N < 32.
WellShaped(N, e) ==
    /\ (4 * N = 32) => e.e1 = <<>>
    /\ (4 * N < 32) => Len(e.e1) = 32 - (4 * N)

\* C8: push_draw_hint panics, and no script is built, unless the hint is
\* well shaped; for a well-shaped hint the script starts with the N
\* encodings in draw order, followed by the remainder only when 4N < 32.
C8_HintShape ==
    (status # "host" /\ test.frag # "mix_digest" /\ ~test.raw) =>
        IF WellShaped(test.N, test.e)
        THEN LET out == [i \in 1..test.N |-> PushBytes(test.e.e0[i])]
                        \o (IF 4 * test.N < 32 THEN <<PushBytes(test.e.e1)>> ELSE <<>>)
             IN /\ status # "panicked"
                /\ Len(script) >= Len(out)
                /\ SubSeq(script, 1, Len(out)) = out
                /\ test.frag = "push_draw_hint" => script = out
        ELSE status = "panicked" /\ script = <<>>

C8_Witness ==
    /\ status = "panicked" /\ script = <<>>
    /\ test.N = 7 /\ Len(test.e.e1) = 5

\* C9: when draw_felt_with_hint accepts, the stack is the next digest and
\* above it r3, r2, r1, r0 (r_i from the i-th window), which is what pushing
\* QM31(CM31(r0, r1), CM31(r2, r3)) leaves.
C9_ExtensionOrder ==
    (test.frag = "draw_felt" /\ Done) =>
        LET r == generate_hints(Sha256(test.d \o <<0>>), 4).values
        IN /\ Depth = 5
           /\ stack[2] = ScriptNumEncode(r[4])
           /\ stack[3] = ScriptNumEncode(r[3])
           /\ stack[4] = ScriptNumEncode(r[2])
           /\ stack[5] = ScriptNumEncode(r[1])
           /\ SubSeq(stack, 2, 5) = [i \in 1..4 |-> PushQM31(r)[i].data]

C9_Witness ==
    /\ test.frag = "draw_felt" /\ Done
    /\ Cardinality({stack[i] : i \in 2..5}) = 4
    /\ SubSeq(stack, 2, 5) =
          [i \in 1..4 |-> PushQM31(generate_hints(Sha256(test.d \o <<0>>), 4).values)[i].data]

\* C10: when draw_5numbers_with_hint(logn) accepts, the stack is the next
\* digest and above it the five indices in draw order, the fifth-drawn on
\* top; the trimming gadget was applied exactly five times, once to each
\* reduced word, and each index is in [0, 2^logn).
C10_FiveNumbers ==
    (test.frag = "draw_5numbers" /\ Done) =>
        LET r == generate_hints(Sha256(test.d \o <<0>>), 5).values
        IN /\ Depth = 6
           /\ \A i \in 1..5 :
                 /\ stack[i + 1] = ScriptNumEncode(trim_m31(r[i], test.logn))
                 /\ ScriptNumDecode(stack[i + 1]) \in 0..(Pow2(test.logn) - 1)
           /\ Len(trimLog) = 5
           /\ \A i \in 1..5 : trimLog[i] = ScriptNumEncode(r[i])

C10_Witness ==
    /\ test.frag = "draw_5numbers" /\ Done
    /\ test.logn = SmallLogn
    /\ Cardinality({trimLog[i] : i \in 1..5}) = 5
    /\ \E i \in 1..5 : stack[i + 1] # trimLog[i]
    /\ Depth = 6

\* The run stands at the OP_IF of reconstruct that tells the hint 0x80 from
\* the others: the hint is second from the top, the result of the
\* comparison on top.
AtRecognise == Fetch("OP_IF") /\ vfExec = <<>>

\* The run has just left the branch of reconstruct taken for the hint 0x80.
AfterNegativeZero ==
    /\ Running /\ Executing /\ Cur.op = "OP_ELSE"
    /\ pc > 1
    /\ script[pc - 1].op = "OP_PUSHBYTES"
    /\ Len(script[pc - 1].data) = WordLen

\* An opcode that reads its operand as a number stands next.
AtArithmetic ==
    Running /\ Executing /\ Cur.op \in {"OP_ABS", "OP_1SUB", "OP_NOT", "OP_LESSTHAN"}

\* C11 as stated: the hint 0x80 is mapped to the word 00 00 00 00, with the
\* magnitude 0 stored on the altstack.
C11_Original ==
    AfterNegativeZero =>
        /\ Top(0) = <<0, 0, 0, 0>>
        /\ altstack # <<>> /\ altstack[Len(altstack)] = ScriptNumEncode(0)

\* C11 (amended): reconstruct takes its special branch exactly for the hint
\* item that is the single byte 0x80, told by OP_EQUAL on the bytes; no
\* opcode that reads a number is ever applied to such an item; the branch
\* leaves the word 00 00 00 80 on the stack and the magnitude 0 on top of
\* the altstack.
C11_NegativeZeroWord ==
    /\ AtRecognise =>
          /\ Depth >= 2
          /\ Top(0) \in {BoolItem(TRUE), BoolItem(FALSE)}
          /\ (Top(0) = BoolItem(TRUE)) <=> (Top(1) = <<BYTE_OP_LEFT>>)
    /\ AtArithmetic =>
          /\ Depth >= 1 /\ Top(0) # <<BYTE_OP_LEFT>>
          /\ Cur.op = "OP_LESSTHAN" => (Depth >= 2 /\ Top(1) # <<BYTE_OP_LEFT>>)
    /\ AfterNegativeZero =>
          /\ Top(0) = NegativeZeroWord
          /\ altstack # <<>> /\ altstack[Len(altstack)] = ScriptNumEncode(0)

C11_Witness ==
    /\ AfterNegativeZero
    /\ test.frag = "unpack" /\ test.N = 8
    /\ Top(0) = NegativeZeroWord /\ Top(0) # <<0, 0, 0, 0>>
    /\ altstack[Len(altstack)] = <<>>
    /\ \E j \in 1..8 : test.e.e0[j] = <<BYTE_OP_LEFT>>

\* The largest magnitude, 2^31 - 1 (the modulus), and the largest field
\* element.
MaxMagnitude == 2147483647
MaxM31 == MaxMagnitude - 1

\* The script of the run contains unpack_multi_m31.
HasUnpack ==
    test.frag \in {"unpack", "unpack_framed", "corner_case", "draw_felt", "draw_5numbers"}

\* The position of the equality check of unpack_multi_m31 in the script.
CheckPc == CHOOSE i \in 1..Len(script) : script[i].op = "OP_EQUALVERIFY"

\* The length of one round of the last loop of unpack_multi_m31.
ReduceLen == Len(unpack_reduce(1))

\* The run stands before round k + 1 of the last loop (k rounds done), or
\* behind the loop (k = N).
AtReduceRound(k) ==
    /\ HasUnpack /\ status \in {"running", "done"} /\ script # <<>>
    /\ pc = CheckPc + 1 + (k * ReduceLen)

\* The number of rounds of the last loop that are done, and the run stands
\* between two rounds of it (or before the first, or behind the last).
ReduceRound == (pc - CheckPc - 1) \div ReduceLen
AtReduceBoundary ==
    /\ HasUnpack /\ status \in {"running", "done"} /\ script # <<>>
    /\ LET off == pc - CheckPc - 1
       IN off >= 0 /\ off % ReduceLen = 0 /\ off \div ReduceLen <= test.N

\* The magnitude reconstruct stores for a hint item.
StoredMagnitude(e) ==
    IF e = <<BYTE_OP_LEFT>> THEN 0
    ELSE IF ScriptNumDecode(e) < 0 THEN 0 - ScriptNumDecode(e) ELSE ScriptNumDecode(e)

\* C12: every element unpack_multi_m31 emits is in [0, 2^31 - 2]: a stored
\* magnitude 0 passes the reduction unchanged, OP_1SUB is applied only to a
\* magnitude m with 1 <= m <= 2^31 - 1, and after k rounds the k top items
\* are 0 for a stored 0 and m - 1 for a stored m >= 1.
C12_ReduceRange ==
    /\ (HasUnpack /\ Running /\ Cur.op = "OP_1SUB" /\ pc > CheckPc) =>
          IF Executing
          THEN HasNum /\ ScriptNumDecode(Top(0)) \in 1..MaxMagnitude
          ELSE Top(0) = ScriptNumEncode(0)
    /\ AtReduceBoundary =>
          LET k == ReduceRound
          IN
          /\ AtReduceRound(k)
          /\ Len(altstack) = Len(InitialAltstack(test)) + test.N - k
          /\ Depth >= k
          /\ \A j \in 0..(k - 1) :
                LET m == StoredMagnitude(test.e.e0[test.N - k + 1 + j])
                    v == ScriptNumDecode(Top(j))
                IN /\ IsNum(Top(j))
                   /\ v \in 0..MaxM31
                   /\ v # MaxMagnitude
                   /\ m \in 0..MaxMagnitude
                   /\ m = 0 => v = 0
                   /\ m >= 1 => v = m - 1

C12_Witness ==
    /\ AtReduceRound(8) /\ test.N = 8 /\ test.frag = "unpack"
    /\ \E i, j \in 0..7 :
          /\ ScriptNumDecode(Top(i)) = MaxM31
          /\ StoredMagnitude(test.e.e0[1 + i]) = MaxMagnitude
          /\ Top(j) = <<>>
          /\ StoredMagnitude(test.e.e0[1 + j]) = 0

\* The magnitudes of the N hint items, as reconstruct stores them: the
\* first at the bottom of the altstack.
StoredMagnitudes ==
    [i \in 1..test.N |-> ScriptNumEncode(StoredMagnitude(test.e.e0[i]))]

\* A step that takes an item back from the altstack outside the inner branch
\* of reconstruct (where only the sign flag is taken back): a stored
\* magnitude leaves the altstack.
MagnitudeTaken == Len(altstack') < Len(altstack) /\ Len(vfExec) < 2

\* A step that takes the sign flag back inside reconstruct.
FlagTaken == Len(altstack') < Len(altstack) /\ Len(vfExec) >= 2

\* A step of the reduction: OP_1SUB under the OP_NOTIF of the last loop.
Reduced == Fetch("OP_1SUB") /\ vfExec # <<>>

\* C13: in every run of unpack_multi_m31 there is one equality check; no
\* stored magnitude leaves the altstack and none is reduced before the check
\* has passed; the check is reached with all N magnitudes stored and is
\* passed only by two equal items; a run aborts at the check or before it,
\* and the step that aborts puts nothing on the main stack, which at a
\* failed check of a run on digest h holds nothing but h, the concatenation
\* and an unused remainder.
C13_CheckBeforeReduce ==
    [][(HasUnpack /\ script # <<>>) =>
          /\ pc = 1 =>
                Cardinality({i \in 1..Len(script) : script[i].op = "OP_EQUALVERIFY"}) = 1
          /\ (MagnitudeTaken \/ Reduced) => pc > CheckPc
          /\ FlagTaken =>
                /\ altstack[Len(altstack)] \in {BoolItem(TRUE), BoolItem(FALSE)}
                /\ altstack' = SubSeq(altstack, 1, Len(altstack) - 1)
                /\ altstack' # <<>>
          /\ (Running /\ Cur.op = "OP_EQUALVERIFY") =>
                /\ pc = CheckPc
                /\ altstack = InitialAltstack(test) \o StoredMagnitudes
                /\ IF Depth >= 2 /\ Top(0) = Top(1)
                   THEN status' = "running" /\ pc' = CheckPc + 1 /\ stack' = Pop(2)
                   ELSE status' = "aborted"
          /\ (status = "running" /\ status' = "aborted") =>
                /\ pc <= CheckPc /\ pc' = pc
                /\ stack' = stack /\ altstack' = altstack
                /\ (pc = CheckPc /\ test.frag = "unpack") =>
                      \A i \in 1..Depth : stack[i] \in {test.d, Top(0), test.e.e1}
      ]_vars

C13_Witness ==
    /\ test.frag = "unpack" /\ test.N = 5
    /\ status = "aborted" /\ pc = CheckPc
    /\ altstack = StoredMagnitudes
    /\ test.e.e0 = generate_hints(test.d, 5).hint.e0
    /\ Depth = 2 /\ Top(1) = test.d /\ Len(Top(0)) = DigestLen /\ Top(0) # test.d

\* The remainder item is on the stack when the fragment starts.
RemPushed == (test.N % 8 # 0) \/ (test.raw /\ test.e.e1 # <<>>)

\* The remainder item, when it is on the stack.
RemItem == IF RemPushed THEN <<test.e.e1>> ELSE <<>>

\* The depth of the stack when unpack_multi_m31 starts: the hint items, the
\* items between, and the digest (two digests in a squeeze, none in
\* test_corner_case).
UnpackDepth ==
    test.N + Len(RemItem) + Len(InitialMiddle(test))
    + (CASE test.frag = "corner_case" -> 0
         [] IsDraw                    -> 2
         [] OTHER                     -> 1)

\* The length of one round of the second loop of unpack_multi_m31, and the
\* position of its first opcode in the script.
ReconstructLen == Len(unpack_reconstruct(1))
ReconstructStart ==
    (CheckPc - Len(unpack_check(test.N)) - (test.N * ReconstructLen)) + 1

\* The run has just left reconstruct for the j-th hint item.
AfterReconstruct(j) ==
    /\ HasUnpack /\ status = "running" /\ script # <<>>
    /\ pc = ReconstructStart + (j * ReconstructLen)

\* The number of hint items reconstruct has run on, and the run has just
\* left reconstruct.
ReconstructRound == (pc - ReconstructStart) \div ReconstructLen
AtReconstructBoundary ==
    /\ HasUnpack /\ status = "running" /\ script # <<>>
    /\ LET off == pc - ReconstructStart
       IN off > 0 /\ off % ReconstructLen = 0 /\ off \div ReconstructLen <= test.N

\* The branch of reconstruct a hint item takes.
BranchOf(e) ==
    IF e = <<BYTE_OP_LEFT>> THEN "negative zero"
    ELSE IF Len(ScriptNumEncode(StoredMagnitude(e))) < WordLen THEN "short"
    ELSE "four bytes"

\* C14: whenever reconstruct has run on the j-th hint item, whichever branch
\* it took, the stack is as deep as before and has j 4-byte words on top of
\* the hint items still to come, the altstack has grown by j items, the last
\* of them the magnitude of the j-th item, above its initial content, and
\* the items beneath are untouched; an accepted run of unpack_multi_m31::<N>
\* leaves the altstack as it found it and the main stack without the N
\* encodings, the remainder (when N mod 8 # 0) and the digest, every other
\* item in place beneath the N values.
C14_Frame ==
    /\ AtReconstructBoundary =>
          LET j == ReconstructRound
          IN
          /\ AfterReconstruct(j)
          /\ Depth = UnpackDepth
          /\ vfExec = <<>>
          /\ \A i \in 0..(j - 1) : Len(Top(i)) = WordLen
          /\ \A i \in (j + 1)..test.N : stack[(Depth - test.N) + (i - j)] = test.e.e0[i]
          /\ Len(altstack) = Len(InitialAltstack(test)) + j
          /\ SubSeq(altstack, 1, Len(altstack) - j) = InitialAltstack(test)
          /\ altstack[Len(altstack)] = ScriptNumEncode(StoredMagnitude(test.e.e0[j]))
          /\ test.frag \in {"unpack", "unpack_framed"} =>
                SubSeq(stack, 1, Depth - test.N) =
                    RemItem \o InitialMiddle(test) \o <<test.d>>
    /\ (HasUnpack /\ Done) => altstack = InitialAltstack(test)
    /\ (test.frag \in {"unpack", "unpack_framed"} /\ Done) =>
          stack = (IF test.N % 8 # 0 THEN <<>> ELSE RemItem)
                  \o InitialMiddle(test)
                  \o ReducedItems(test.d, test.N)

C14_Witness ==
    /\ test.frag = "unpack_framed" /\ Done
    /\ test.N = 5 /\ test.e.e1 # <<>>
    /\ {BranchOf(test.e.e0[i]) : i \in 1..5} = {"negative zero", "short", "four bytes"}
    /\ stack = MiddleItems \o ReducedItems(test.d, 5)
    /\ altstack = FrameAltstack /\ altstack # <<>>

===========================================================================
